---- MODULE Spec2Model ----
(***************************************************************************)
(* The WatermarkRemover component (src/components/WatermarkRemover.tsx):   *)
(* its React state, its event handlers, the two asynchronous workflows     *)
(* (processImage, downloadProcessedImage) cut at their awaits, and the     *)
(* collaborators (auth, storage, AI transform, fetch, object URLs) as the  *)
(* environment.                                                            *)
(*                                                                         *)
(* Strings the code inspects character by character (file names, MIME      *)
(* types) are sequences of one-character strings.  console output is not   *)
(* modelled.                                                               *)
(***************************************************************************)
EXTENDS Integers, Sequences, FiniteSets, TLC

(***************************************************************************)
(* Bounds of the model.                                                    *)
(***************************************************************************)
\* processImage invocations that may be in flight at once
MaxRuns == 1
\* downloadProcessedImage invocations that may be in flight at once
MaxDownloads == 1
\* object URLs that may be live at once (URL.createObjectURL without revoke)
MaxObjectUrls == 2

(***************************************************************************)
(* Values.                                                                 *)
(***************************************************************************)
\* null (useState<File | null>(null), useState<any>(null), ...)
Null == [null |-> TRUE]

\* '' : the initial previewUrl; object URLs are 1, 2, ...
EmptyUrl == 0

\* the 10MB ceiling of handleFileSelect
MaxFileSize == 10 * 1024 * 1024

ImagePrefix == <<"i", "m", "a", "g", "e", "/">>

Suffix ==
    <<"_", "w", "a", "t", "e", "r", "m", "a", "r", "k",
      "_", "r", "e", "m", "o", "v", "e", "d", ".", "p", "n", "g">>

\* MIME types of candidate files ('' is what a browser reports for an
\* unknown type)
ImagePng == <<"i", "m", "a", "g", "e", "/", "p", "n", "g">>
ImageJpeg == <<"i", "m", "a", "g", "e", "/", "j", "p", "e", "g">>
AppPdf == <<"a", "p", "p", "l", "i", "c", "a", "t", "i", "o", "n", "/", "p", "d", "f">>
TextImage == <<"t", "e", "x", "t", "/", "i", "m", "a", "g", "e", "/">>
NoType == << >>

\* file names: archive.tar.png, photo (no extension), doc.pdf
ArchiveTarPng == <<"a", "r", "c", "h", "i", "v", "e", ".", "t", "a", "r", ".", "p", "n", "g">>
Photo == <<"p", "h", "o", "t", "o">>
DocPdf == <<"d", "o", "c", ".", "p", "d", "f">>

File(name, type, size) == [name |-> name, type |-> type, size |-> size]

\* the candidate files a user may pick or drop: an image of exactly the
\* ceiling, one below it, one above it, and files of other types
Files ==
    {File(ArchiveTarPng, ImagePng, MaxFileSize),
     File(Photo, ImageJpeg, 1),
     File(ArchiveTarPng, ImagePng, MaxFileSize + 1),
     File(DocPdf, AppPdf, MaxFileSize + 1),
     File(DocPdf, TextImage, 1),
     File(DocPdf, NoType, 1)}

\* the sessions the auth collaborator may report
Users == {[id |-> "u1", email |-> "u1@example.com"]}

(***************************************************************************)
(* Pure helpers.                                                           *)
(***************************************************************************)
\* String.prototype.startsWith
StartsWith(s, prefix) ==
    /\ Len(s) >= Len(prefix)
    /\ SubSeq(s, 1, Len(prefix)) = prefix

\* a faulty variant of the type test: "image/" anywhere in the type
\* (String.prototype.includes in place of startsWith)
IsImageTypeByInclusion(type) ==
    \E i \in 1..Len(type) :
        /\ i + Len(ImagePrefix) - 1 <= Len(type)
        /\ SubSeq(type, i, i + Len(ImagePrefix) - 1) = ImagePrefix

\* !file.type.startsWith('image/') is the first rejection of handleFileSelect
IsImageType(type) == StartsWith(type, ImagePrefix)

\* a faulty variant of the size test: >= in place of >
TooLargeInclusive(size) == size >= MaxFileSize

\* file.size > 10 * 1024 * 1024 is the second rejection
TooLarge(size) == size > MaxFileSize

\* index of the last '.' of a name, 0 when it has none
LastDot(name) ==
    LET dots == {i \in 1..Len(name) : name[i] = "."}
    IN  IF dots = {} THEN 0 ELSE CHOOSE i \in dots : \A j \in dots : j <= i

\* notifications: toast({title, description, variant})
Toast(title, description, variant) ==
    [ev |-> "toast", title |-> title, description |-> description,
     variant |-> variant]

\* an emitted event as an invocation's log keeps it: its kind and, of a
\* toast its title, of a progress write its value
Brief(e) ==
    IF e.ev = "toast" THEN [ev |-> "toast", what |-> e.title]
    ELSE IF e.ev = "setProgress" THEN [ev |-> "setProgress", value |-> e.value]
    ELSE [ev |-> e.ev]

Briefs(events) == [i \in 1..Len(events) |-> Brief(events[i])]

(***************************************************************************)
(* State.                                                                  *)
(***************************************************************************)
VARIABLES
    selectedImage,   \* useState<File | null>
    previewUrl,      \* useState<string>
    isProcessing,    \* useState(false)
    progress,        \* useState(0)
    processedImage,  \* useState<ProcessedImage | null>
    dragActive,      \* useState(false)
    user,            \* useState<any>(null)
    authLoading,     \* useState(true)
    fileInputValue,  \* value of the <input type="file"> behind fileInputRef
    objectUrls,      \* object URLs created and not revoked
    runs,            \* the processImage invocations, each at its await
    downloads,       \* the downloadProcessedImage invocations
    out              \* what the last step emitted (toasts, collaborator calls)

vars == <<selectedImage, previewUrl, isProcessing, progress, processedImage,
          dragActive, user, authLoading, fileInputValue, objectUrls, runs,
          downloads, out>>

NoValue == << >>

\* a processImage invocation: where it stands, the selectedImage of its
\* closure, its publicUrl, and what it has emitted so far
IdleRun == [pc |-> "idle", file |-> Null, publicUrl |-> "", log |-> << >>]

\* an invocation that has returned: its locals are gone, its log stays
Done(log) == [pc |-> "done", file |-> Null, publicUrl |-> "", log |-> log]

IdleDownload == [pc |-> "idle", image |-> Null]

Init ==
    /\ selectedImage = Null
    /\ previewUrl = EmptyUrl
    /\ isProcessing = FALSE
    /\ progress = 0
    /\ processedImage = Null
    /\ dragActive = FALSE
    /\ user = Null
    /\ authLoading = TRUE
    /\ fileInputValue = NoValue
    /\ objectUrls = {}
    /\ runs = [r \in 1..MaxRuns |-> IdleRun]
    /\ downloads = [d \in 1..MaxDownloads |-> IdleDownload]
    /\ out = << >>

(***************************************************************************)
(* What the component renders.                                             *)
(***************************************************************************)
Screen ==
    IF authLoading THEN "loading"
    ELSE IF user = Null THEN "signin"
    ELSE "main"

\* the drop zone, the Choose File button and the hidden file input
UploadSectionRendered == Screen = "main" /\ selectedImage = Null

\* a faulty variant of the Upload New button: disabled={isProcessing} left out
UploadNewAlwaysEnabled == Screen = "main" /\ selectedImage # Null

\* the Upload New button, enabled
UploadNewEnabled == Screen = "main" /\ selectedImage # Null /\ ~isProcessing

\* the Remove Watermark button
RemoveWatermarkRendered ==
    /\ Screen = "main"
    /\ selectedImage # Null
    /\ ~isProcessing
    /\ processedImage = Null

\* the Download button
DownloadRendered ==
    /\ Screen = "main"
    /\ selectedImage # Null
    /\ ~isProcessing
    /\ processedImage # Null

\* the file input is mounted with the upload section; its value goes with
\* the element when React unmounts it
KeepInput(v) ==
    fileInputValue' = IF UploadSectionRendered' THEN v ELSE NoValue

\* URL.createObjectURL returns a URL no live one equals
FreshUrl(live) == CHOOSE n \in 1..(Cardinality(live) + 1) : n \notin live

(***************************************************************************)
(* Authentication.                                                         *)
(***************************************************************************)
AuthStateChanged(u, loading) ==
    /\ user' = u
    /\ authLoading' = loading
    /\ out' = << >>
    /\ UNCHANGED <<selectedImage, previewUrl, isProcessing, progress,
                   processedImage, dragActive, objectUrls, runs, downloads>>
    /\ KeepInput(fileInputValue)

(***************************************************************************)
(* Input acquisition.                                                      *)
(***************************************************************************)
\* the state handleFileSelect(file) leaves, the input's value being v
FileSelect(file, v, drag) ==
    IF ~IsImageType(file.type)
    THEN /\ out' = <<Toast("Invalid file type",
                            "Please select an image file (JPG, PNG, WebP)",
                            "destructive")>>
         /\ dragActive' = drag
         /\ UNCHANGED <<selectedImage, previewUrl, isProcessing, progress,
                        processedImage, user, authLoading, objectUrls, runs,
                        downloads>>
         /\ KeepInput(v)
    ELSE IF TooLarge(file.size)
    THEN /\ out' = <<Toast("File too large",
                            "Please select an image smaller than 10MB",
                            "destructive")>>
         /\ dragActive' = drag
         /\ UNCHANGED <<selectedImage, previewUrl, isProcessing, progress,
                        processedImage, user, authLoading, objectUrls, runs,
                        downloads>>
         /\ KeepInput(v)
    ELSE /\ Cardinality(objectUrls) < MaxObjectUrls
         /\ selectedImage' = file
         /\ previewUrl' = FreshUrl(objectUrls)
         /\ objectUrls' = objectUrls \cup {FreshUrl(objectUrls)}
         /\ processedImage' = Null
         /\ dragActive' = drag
         /\ out' = <<[ev |-> "createObjectURL", url |-> FreshUrl(objectUrls)]>>
         /\ UNCHANGED <<isProcessing, progress, user, authLoading, runs,
                        downloads>>
         /\ KeepInput(v)

HandleFileSelect(file) == FileSelect(file, fileInputValue, dragActive)

\* a faulty variant: the dragleave branch left out
HandleDragLeaveIgnored(type) ==
    /\ dragActive' = IF type \in {"dragenter", "dragover"} THEN TRUE
                     ELSE dragActive
    /\ out' = << >>
    /\ UNCHANGED <<selectedImage, previewUrl, isProcessing, progress,
                   processedImage, user, authLoading, objectUrls, runs,
                   downloads>>
    /\ KeepInput(fileInputValue)

HandleDrag(type) ==
    /\ dragActive' = IF type \in {"dragenter", "dragover"} THEN TRUE
                     ELSE IF type = "dragleave" THEN FALSE
                     ELSE dragActive
    /\ out' = << >>
    /\ UNCHANGED <<selectedImage, previewUrl, isProcessing, progress,
                   processedImage, user, authLoading, objectUrls, runs,
                   downloads>>
    /\ KeepInput(fileInputValue)

\* files: what e.dataTransfer.files holds
HandleDrop(files) ==
    IF Len(files) > 0
    THEN FileSelect(files[1], fileInputValue, FALSE)
    ELSE /\ dragActive' = FALSE
         /\ out' = << >>
         /\ UNCHANGED <<selectedImage, previewUrl, isProcessing, progress,
                        processedImage, user, authLoading, objectUrls, runs,
                        downloads>>
         /\ KeepInput(fileInputValue)

\* files: what e.target.files holds; the browser has set the input's value
HandleFileInputChange(files) ==
    IF Len(files) > 0
    THEN FileSelect(files[1], files[1].name, dragActive)
    ELSE /\ out' = << >>
         /\ UNCHANGED <<selectedImage, previewUrl, isProcessing, progress,
                        processedImage, dragActive, user, authLoading,
                        objectUrls, runs, downloads>>
         /\ KeepInput(NoValue)

(***************************************************************************)
(* Reset.                                                                  *)
(***************************************************************************)
\* a faulty variant: setProcessedImage(null) left out
ResetKeepsResult ==
    /\ selectedImage' = Null
    /\ previewUrl' = EmptyUrl
    /\ progress' = 0
    /\ out' = << >>
    /\ UNCHANGED <<processedImage, isProcessing, dragActive, user,
                   authLoading, objectUrls, runs, downloads>>
    /\ KeepInput(NoValue)

\* a faulty variant: setProgress(0) left out
ResetKeepsProgress ==
    /\ selectedImage' = Null
    /\ previewUrl' = EmptyUrl
    /\ processedImage' = Null
    /\ out' = << >>
    /\ UNCHANGED <<progress, isProcessing, dragActive, user, authLoading,
                   objectUrls, runs, downloads>>
    /\ KeepInput(NoValue)

ResetProcess ==
    /\ selectedImage' = Null
    /\ previewUrl' = EmptyUrl
    /\ processedImage' = Null
    /\ progress' = 0
    /\ out' = << >>
    /\ UNCHANGED <<isProcessing, dragActive, user, authLoading, objectUrls,
                   runs, downloads>>
    /\ KeepInput(NoValue)

(***************************************************************************)
(* processImage.                                                           *)
(***************************************************************************)
\* what a rejected promise carries: an Error with a message (a sequence of
\* words) or some other value
Messages == {<<"429", "network">>, <<"quota", "exceeded">>}

Thrown ==
    {[isError |-> TRUE, message |-> m] : m \in Messages}
        \cup {[isError |-> FALSE, message |-> << >>]}

InvalidResponse ==
    [isError |-> TRUE,
     message |-> <<"AI", "processing", "returned", "invalid", "response">>]

\* String.prototype.includes on a message
Includes(message, word) == \E i \in 1..Len(message) : message[i] = word

\* the errorMessage the catch block derives from what was thrown
ErrorMessage(error) ==
    IF ~error.isError THEN <<"Unknown error occurred">>
    ELSE IF Includes(error.message, "401") \/ Includes(error.message, "unauthorized")
    THEN <<"Authentication failed. Please sign out and sign in again.">>
    ELSE IF Includes(error.message, "403") \/ Includes(error.message, "forbidden")
    THEN <<"Access denied. Please check your account permissions.">>
    ELSE IF Includes(error.message, "429") \/ Includes(error.message, "rate limit")
    THEN <<"Rate limit exceeded. Please wait a moment and try again.">>
    ELSE IF Includes(error.message, "network") \/ Includes(error.message, "fetch")
    THEN <<"Network error. Please check your connection and try again.">>
    ELSE error.message

FailureToast(error) ==
    Toast("Processing failed",
          <<"Error: ">> \o ErrorMessage(error) \o <<". Please try again.">>,
          "destructive")

\* selectedImage.name.split('.').pop()
Extension(name) == SubSeq(name, LastDot(name) + 1, Len(name))

\* `watermark-removal/original-${Date.now()}.${extension}`
StorageKey(now, name) ==
    [prefix |-> "watermark-removal/original-", now |-> now,
     ext |-> Extension(name)]

\* the instants Date.now() may return
Timestamps == {1}

\* name.replace(/\.[^/.]+$/, '_watermark_removed.png'): the match is the last
\* '.' and what follows it, when that is not empty and holds no '/'
DerivedFilename(name) ==
    LET d == LastDot(name)
    IN  IF /\ d > 0
           /\ d < Len(name)
           /\ \A i \in (d + 1)..Len(name) : name[i] # "/"
        THEN SubSeq(name, 1, d - 1) \o Suffix
        ELSE name

\* the AI collaborator's answers: null, no data, an empty list, a first entry
\* without url or with an empty one, a first entry with a url
Entry(hasUrl, url) == [hasUrl |-> hasUrl, url |-> url]

Result(present, hasData, data) ==
    [present |-> present, hasData |-> hasData, data |-> data]

AiResults ==
    {Result(FALSE, FALSE, << >>),
     Result(TRUE, FALSE, << >>),
     Result(TRUE, TRUE, << >>),
     Result(TRUE, TRUE, <<Entry(FALSE, "")>>),
     Result(TRUE, TRUE, <<Entry(TRUE, "")>>),
     Result(TRUE, TRUE, <<Entry(FALSE, ""), Entry(TRUE, "https://cdn/x/out.png")>>),
     Result(TRUE, TRUE, <<Entry(TRUE, "https://cdn/x/out.png")>>)}

\* a faulty variant of the response test: a url in any entry
HasResultUrlAnywhere(result) ==
    /\ result.present
    /\ result.hasData
    /\ \E i \in 1..Len(result.data) :
          result.data[i].hasUrl /\ result.data[i].url # ""

\* result && result.data && result.data[0]?.url
HasResultUrl(result) ==
    /\ result.present
    /\ result.hasData
    /\ Len(result.data) > 0
    /\ result.data[1].hasUrl
    /\ result.data[1].url # ""

\* the durable URLs the storage collaborator may return
PublicUrls == {"https://cdn/x/original.png"}

AnalysisPrompt == "Remove all watermarks, logos, text overlays, ..."

SetProgress(v) == [ev |-> "setProgress", value |-> v]

\* the checkpoints processImage writes to progress, in the order of its text
ProgressStarted == 0
ProgressUploading == 20
ProgressUploaded == 40
ProgressTransforming == 60
ProgressAnswered == 90
\* a faulty variant of the last checkpoint: setProgress(100) left out
ProgressSucceededMissing == ProgressAnswered
ProgressSucceeded == 100

FreeRuns == {r \in 1..MaxRuns : runs[r].pc \in {"idle", "done"}}

\* a faulty variant of the session check: the gate left out
AuthenticationAssumed == TRUE

\* the session check of processImage
Authenticated == user # Null

\* processImage up to its first await
ProcessImage ==
    IF selectedImage = Null
    THEN /\ out' = << >>
         /\ UNCHANGED <<selectedImage, previewUrl, isProcessing, progress,
                        processedImage, dragActive, user, authLoading,
                        objectUrls, runs, downloads>>
         /\ KeepInput(fileInputValue)
    ELSE IF ~Authenticated
    THEN /\ out' = <<Toast("Authentication required",
                            "Please sign in to use the watermark removal feature",
                            "destructive")>>
         /\ UNCHANGED <<selectedImage, previewUrl, isProcessing, progress,
                        processedImage, dragActive, user, authLoading,
                        objectUrls, runs, downloads>>
         /\ KeepInput(fileInputValue)
    ELSE /\ FreeRuns # {}
         /\ \E now \in Timestamps :
              LET r == CHOOSE q \in FreeRuns : \A p \in FreeRuns : q <= p
                  emitted ==
                      <<SetProgress(ProgressStarted),
                        Toast("Uploading image...",
                              "Preparing your image for AI processing",
                              "default"),
                        SetProgress(ProgressUploading),
                        [ev |-> "upload", file |-> selectedImage,
                         key |-> StorageKey(now, selectedImage.name),
                         upsert |-> TRUE]>>
              IN  /\ runs' = [runs EXCEPT ![r] =
                          [pc |-> "awaitUpload", file |-> selectedImage,
                           publicUrl |-> "", log |-> Briefs(emitted)]]
                  /\ out' = emitted
         /\ isProcessing' = TRUE
         /\ progress' = ProgressUploading
         /\ UNCHANGED <<selectedImage, previewUrl, processedImage, dragActive,
                        user, authLoading, objectUrls, downloads>>
         /\ KeepInput(fileInputValue)

\* a faulty variant of the error path: no finally block
FailWithoutFinally(r, before, error) ==
    LET emitted == before \o <<FailureToast(error)>>
    IN  /\ runs' = [runs EXCEPT ![r] = Done(runs[r].log \o Briefs(emitted))]
        /\ out' = emitted
        /\ UNCHANGED isProcessing

\* the catch and finally blocks, run r having thrown error
Fail(r, before, error) ==
    LET emitted == before \o <<FailureToast(error)>>
    IN  /\ runs' = [runs EXCEPT ![r] = Done(runs[r].log \o Briefs(emitted))]
        /\ out' = emitted
        /\ isProcessing' = FALSE

\* blink.storage.upload resolved with {publicUrl}: on to the AI request
UploadResolved(r, publicUrl) ==
    /\ runs[r].pc = "awaitUpload"
    /\ LET emitted ==
               <<SetProgress(ProgressUploaded),
                 Toast("AI Processing...",
                       "Our AI is analyzing and removing the watermark",
                       "default"),
                 SetProgress(ProgressTransforming),
                 [ev |-> "modifyImage", images |-> <<publicUrl>>,
                  prompt |-> AnalysisPrompt, quality |-> "high", n |-> 1]>>
       IN  /\ runs' = [runs EXCEPT ![r].pc = "awaitModify",
                                   ![r].publicUrl = publicUrl,
                                   ![r].log = runs[r].log \o Briefs(emitted)]
           /\ out' = emitted
    /\ progress' = ProgressTransforming
    /\ UNCHANGED <<selectedImage, previewUrl, isProcessing, processedImage,
                   dragActive, user, authLoading, objectUrls, downloads>>
    /\ KeepInput(fileInputValue)

\* a faulty variant: a rejected upload is issued again instead of failing
UploadRejectedRetries(r, error) ==
    /\ runs[r].pc = "awaitUpload"
    /\ \E now \in Timestamps :
         LET emitted == <<[ev |-> "upload", file |-> runs[r].file,
                           key |-> StorageKey(now, runs[r].file.name),
                           upsert |-> TRUE]>>
         IN  /\ runs' = [runs EXCEPT ![r].log = runs[r].log \o Briefs(emitted)]
             /\ out' = emitted
    /\ UNCHANGED <<selectedImage, previewUrl, isProcessing, progress,
                   processedImage, dragActive, user, authLoading, objectUrls,
                   downloads>>
    /\ KeepInput(fileInputValue)

\* blink.storage.upload rejected
UploadRejected(r, error) ==
    /\ runs[r].pc = "awaitUpload"
    /\ Fail(r, << >>, error)
    /\ UNCHANGED <<selectedImage, previewUrl, progress, processedImage,
                   dragActive, user, authLoading, objectUrls, downloads>>
    /\ KeepInput(fileInputValue)

\* blink.ai.modifyImage resolved with result
ModifyResolved(r, result) ==
    /\ runs[r].pc = "awaitModify"
    /\ IF HasResultUrl(result)
       THEN LET emitted ==
                    <<SetProgress(ProgressAnswered), SetProgress(ProgressSucceeded),
                      Toast("Success!", "Watermark removed successfully",
                            "default")>>
            IN  /\ processedImage' =
                       [original |-> runs[r].publicUrl,
                        processed |-> result.data[1].url,
                        filename |-> DerivedFilename(runs[r].file.name)]
                /\ progress' = ProgressSucceeded
                /\ runs' = [runs EXCEPT ![r] =
                            Done(runs[r].log \o Briefs(emitted))]
                /\ out' = emitted
                /\ isProcessing' = FALSE
       ELSE /\ Fail(r, <<SetProgress(ProgressAnswered)>>, InvalidResponse)
            /\ progress' = ProgressAnswered
            /\ UNCHANGED processedImage
    /\ UNCHANGED <<selectedImage, previewUrl, dragActive, user, authLoading,
                   objectUrls, downloads>>
    /\ KeepInput(fileInputValue)

\* blink.ai.modifyImage rejected
ModifyRejected(r, error) ==
    /\ runs[r].pc = "awaitModify"
    /\ Fail(r, << >>, error)
    /\ UNCHANGED <<selectedImage, previewUrl, progress, processedImage,
                   dragActive, user, authLoading, objectUrls, downloads>>
    /\ KeepInput(fileInputValue)

(***************************************************************************)
(* downloadProcessedImage.                                                 *)
(***************************************************************************)
FreeDownloads == {d \in 1..MaxDownloads : downloads[d].pc = "idle"}

\* downloadProcessedImage up to its first await
DownloadProcessedImage ==
    IF processedImage = Null
    THEN /\ out' = << >>
         /\ UNCHANGED <<selectedImage, previewUrl, isProcessing, progress,
                        processedImage, dragActive, user, authLoading,
                        objectUrls, runs, downloads>>
         /\ KeepInput(fileInputValue)
    ELSE /\ FreeDownloads # {}
         /\ LET d == CHOOSE q \in FreeDownloads : \A p \in FreeDownloads : q <= p
            IN  downloads' = [downloads EXCEPT ![d] =
                    [pc |-> "awaitFetch", image |-> processedImage]]
         /\ out' = <<[ev |-> "fetch", url |-> processedImage.processed]>>
         /\ UNCHANGED <<selectedImage, previewUrl, isProcessing, progress,
                        processedImage, dragActive, user, authLoading,
                        objectUrls, runs>>
         /\ KeepInput(fileInputValue)

\* fetch resolved with a response: on to response.blob()
FetchResolved(d) ==
    /\ downloads[d].pc = "awaitFetch"
    /\ downloads' = [downloads EXCEPT ![d].pc = "awaitBlob"]
    /\ out' = << >>
    /\ UNCHANGED <<selectedImage, previewUrl, isProcessing, progress,
                   processedImage, dragActive, user, authLoading, objectUrls,
                   runs>>
    /\ KeepInput(fileInputValue)

\* a faulty variant of the catch block: the result dropped with the download
DownloadFailedDropsResult(d) ==
    /\ downloads' = [downloads EXCEPT ![d] = IdleDownload]
    /\ out' = <<Toast("Download failed",
                       "Failed to download the processed image",
                       "destructive")>>
    /\ processedImage' = Null
    /\ UNCHANGED <<selectedImage, previewUrl, isProcessing, progress,
                   dragActive, user, authLoading, objectUrls, runs>>
    /\ KeepInput(fileInputValue)

\* the catch block of downloadProcessedImage
DownloadFailed(d) ==
    /\ downloads' = [downloads EXCEPT ![d] = IdleDownload]
    /\ out' = <<Toast("Download failed",
                       "Failed to download the processed image",
                       "destructive")>>
    /\ UNCHANGED <<selectedImage, previewUrl, isProcessing, progress,
                   processedImage, dragActive, user, authLoading, objectUrls,
                   runs>>
    /\ KeepInput(fileInputValue)

\* fetch rejected
FetchRejected(d, error) ==
    /\ downloads[d].pc = "awaitFetch"
    /\ DownloadFailed(d)

\* response.blob() rejected
BlobRejected(d, error) ==
    /\ downloads[d].pc = "awaitBlob"
    /\ DownloadFailed(d)

\* a faulty variant: URL.revokeObjectURL left out
BlobResolvedWithoutRevoke(d) ==
    /\ downloads[d].pc = "awaitBlob"
    /\ LET url == FreshUrl(objectUrls)
       IN  /\ objectUrls' = objectUrls \cup {url}
           /\ out' = <<[ev |-> "createObjectURL", url |-> url],
                       [ev |-> "save", href |-> url,
                        download |-> downloads[d].image.filename],
                       Toast("Downloaded!",
                             "Your watermark-free image has been downloaded",
                             "default")>>
    /\ downloads' = [downloads EXCEPT ![d] = IdleDownload]
    /\ UNCHANGED <<selectedImage, previewUrl, isProcessing, progress,
                   processedImage, dragActive, user, authLoading, runs>>
    /\ KeepInput(fileInputValue)

\* response.blob() resolved: the object URL, the anchor's click, the revoke
BlobResolved(d) ==
    /\ downloads[d].pc = "awaitBlob"
    /\ LET url == FreshUrl(objectUrls)
       IN  /\ objectUrls' = (objectUrls \cup {url}) \ {url}
           /\ out' = <<[ev |-> "createObjectURL", url |-> url],
                       [ev |-> "save", href |-> url,
                        download |-> downloads[d].image.filename],
                       [ev |-> "revokeObjectURL", url |-> url],
                       Toast("Downloaded!",
                             "Your watermark-free image has been downloaded",
                             "default")>>
    /\ downloads' = [downloads EXCEPT ![d] = IdleDownload]
    /\ UNCHANGED <<selectedImage, previewUrl, isProcessing, progress,
                   processedImage, dragActive, user, authLoading, runs>>
    /\ KeepInput(fileInputValue)

(***************************************************************************)
(* The environment: the collaborators' answers and the auth subscription.  *)
(***************************************************************************)
AuthStates == (Users \cup {Null}) \X BOOLEAN

OnAuthStateChanged == \E s \in AuthStates : AuthStateChanged(s[1], s[2])

StorageResolves ==
    \E r \in 1..MaxRuns : \E url \in PublicUrls : UploadResolved(r, url)

StorageRejects ==
    \E r \in 1..MaxRuns : \E error \in Thrown : UploadRejected(r, error)

AiResolves ==
    \E r \in 1..MaxRuns : \E result \in AiResults : ModifyResolved(r, result)

AiRejects ==
    \E r \in 1..MaxRuns : \E error \in Thrown : ModifyRejected(r, error)

FetchResolves == \E d \in 1..MaxDownloads : FetchResolved(d)

FetchRejects ==
    \E d \in 1..MaxDownloads : \E error \in Thrown : FetchRejected(d, error)

BlobResolves == \E d \in 1..MaxDownloads : BlobResolved(d)

BlobRejects ==
    \E d \in 1..MaxDownloads : \E error \in Thrown : BlobRejected(d, error)

Environment ==
    \/ OnAuthStateChanged
    \/ StorageResolves
    \/ StorageRejects
    \/ AiResolves
    \/ AiRejects
    \/ FetchResolves
    \/ FetchRejects
    \/ BlobResolves
    \/ BlobRejects

(***************************************************************************)
(* The user, through what the component renders.                           *)
(***************************************************************************)
DragTypes == {"dragenter", "dragover", "dragleave"}

\* what a drop or a picker change may carry: nothing, or a file first
FileLists == {<< >>} \cup {<<f>> : f \in Files}

DragOverZone ==
    /\ UploadSectionRendered
    /\ \E type \in DragTypes : HandleDrag(type)

DropOnZone ==
    /\ UploadSectionRendered
    /\ \E files \in FileLists : HandleDrop(files)

PickFile ==
    /\ UploadSectionRendered
    /\ \E files \in FileLists : HandleFileInputChange(files)

ClickUploadNew ==
    /\ UploadNewEnabled
    /\ ResetProcess

ClickRemoveWatermark ==
    /\ RemoveWatermarkRendered
    /\ ProcessImage

ClickDownload ==
    /\ DownloadRendered
    /\ DownloadProcessedImage

Next ==
    \/ DragOverZone
    \/ DropOnZone
    \/ PickFile
    \/ ClickUploadNew
    \/ ClickRemoveWatermark
    \/ ClickDownload
    \/ Environment

Spec == Init /\ [][Next]_vars

\* Spec with every awaited collaborator call answered in the end: the
\* promise processImage awaits on storage.upload, and the one it awaits on
\* ai.modifyImage, settle one way or the other
SpecFair ==
    /\ Spec
    /\ WF_vars(StorageResolves \/ StorageRejects)
    /\ WF_vars(AiResolves \/ AiRejects)

(***************************************************************************)
(* The handlers of input acquisition, processImage and resetProcess called *)
(* in any state of the component, whatever it renders at that moment (the  *)
(* download workflow only reads processedImage and is left to Spec).       *)
(***************************************************************************)
CallHandleFileSelect == \E file \in Files : HandleFileSelect(file)

CallHandleDrag == \E type \in DragTypes : HandleDrag(type)

CallHandleDrop == \E files \in FileLists : HandleDrop(files)

CallHandleFileInputChange == \E files \in FileLists : HandleFileInputChange(files)

CallProcessImage == ProcessImage

CallResetProcess == ResetProcess

NextDirect ==
    \/ CallHandleFileSelect
    \/ CallHandleDrag
    \/ CallHandleDrop
    \/ CallHandleFileInputChange
    \/ CallProcessImage
    \/ CallResetProcess
    \/ OnAuthStateChanged
    \/ StorageResolves
    \/ StorageRejects
    \/ AiResolves
    \/ AiRejects

SpecDirect == Init /\ [][NextDirect]_vars

(***************************************************************************)
(* The stage of the workflow, as the component shows it: the processing    *)
(* panel with the progress checkpoint of the pending call, the result      *)
(* panel, or the ready panel.  The component stores no failed stage: after *)
(* a failed run it shows the ready panel again.                            *)
(***************************************************************************)
ProcessingState ==
    IF isProcessing
    THEN IF progress < ProgressTransforming THEN "Uploading" ELSE "Transforming"
    ELSE IF processedImage # Null THEN "Complete"
    ELSE "Idle"

(***************************************************************************)
(* Properties.                                                             *)
(***************************************************************************)
IsToast(e) == e.ev = "toast"

ToastCount(events) == Cardinality({i \in 1..Len(events) : IsToast(events[i])})

HasToast(events, title) ==
    \E i \in 1..Len(events) : IsToast(events[i]) /\ events[i].title = title

HasEvent(events, ev) == \E i \in 1..Len(events) : events[i].ev = ev

TenMiB == 10 * 1024 * 1024

\* the type does not begin with the six characters of "image/"
NotAnImage(file) ==
    \/ Len(file.type) < 6
    \/ <<file.type[1], file.type[2], file.type[3], file.type[4], file.type[5],
         file.type[6]>> # <<"i", "m", "a", "g", "e", "/">>

\* C1: a file whose MIME type does not start with "image/" is rejected by
\* handleFileSelect with the type notification, and the selected file, the
\* preview reference, the processed result and the live object URLs are what
\* they were before the call, in whatever state the call is made.
C1_NonImageRejected ==
    [][\A file \in Files :
          (NotAnImage(file) /\ HandleFileSelect(file))
              => /\ UNCHANGED <<selectedImage, previewUrl, processedImage,
                                objectUrls>>
                 /\ ToastCount(out') = 1
                 /\ HasToast(out', "Invalid file type")]_vars

\* a non-image was rejected while a file, its preview and a result were held
C1_Witness ==
    /\ HasToast(out, "Invalid file type")
    /\ selectedImage # Null
    /\ previewUrl # EmptyUrl
    /\ processedImage # Null

\* C2: handleFileSelect rejects every file above 10 MiB, of any MIME type,
\* and stages nothing; it accepts every image of at most 10 MiB, which
\* becomes the selected file.
C2_SizeCeiling ==
    [][\A file \in Files :
          HandleFileSelect(file)
              => /\ file.size > TenMiB
                      => /\ UNCHANGED <<selectedImage, previewUrl,
                                        processedImage, objectUrls>>
                         /\ ToastCount(out') = 1
                         /\ ~HasEvent(out', "createObjectURL")
                 /\ (~NotAnImage(file) /\ file.size > TenMiB)
                      => HasToast(out', "File too large")
                 /\ (~NotAnImage(file) /\ file.size <= TenMiB)
                      => /\ selectedImage' = file
                         /\ ToastCount(out') = 0]_vars

\* an image of exactly 10 MiB is the selected file, and a larger one has just
\* been turned away
C2_Witness ==
    /\ selectedImage # Null
    /\ selectedImage.size = TenMiB
    /\ HasToast(out, "File too large")

\* C3: exactly one preview reference is live while a file is selected, and
\* none is live while no file is selected.
C3_OnePreviewPerFile ==
    /\ selectedImage = Null => objectUrls = {}
    /\ selectedImage # Null => objectUrls = {previewUrl}

\* C4: processImage called with a selected file and no session attempts no
\* upload, starts no invocation, leaves isProcessing, progress and the result
\* as they were, and emits exactly one notification.
C4_GateBlocks ==
    [][(selectedImage # Null /\ user = Null /\ ProcessImage)
          => /\ ~HasEvent(out', "upload")
             /\ UNCHANGED <<isProcessing, progress, processedImage, runs>>
             /\ ToastCount(out') = 1
             /\ HasToast(out', "Authentication required")]_vars

\* processImage has just been turned away at the gate, the workflow idle
C4_Witness ==
    /\ HasToast(out, "Authentication required")
    /\ selectedImage # Null
    /\ user = Null
    /\ ~isProcessing
    /\ \A r \in 1..MaxRuns : runs[r].pc = "idle"

\* C5: the AI transform request is issued only while the user is non-null.
C5_TransformOnlySignedIn == HasEvent(out, "modifyImage") => user # Null

\* the values an invocation wrote to progress, in order
ProgressValues(log) ==
    LET writes == SelectSeq(log, LAMBDA e : e.ev = "setProgress")
    IN  [i \in 1..Len(writes) |-> writes[i].value]

NonDecreasing(seq) == \A i \in 1..(Len(seq) - 1) : seq[i] <= seq[i + 1]

TitleCount(log, title) ==
    Cardinality({i \in 1..Len(log) : log[i].ev = "toast" /\ log[i].what = title})

\* the response has a first entry carrying a url field
FirstEntryHasUrl(result) ==
    /\ result.present
    /\ result.hasData
    /\ Len(result.data) >= 1
    /\ result.data[1].hasUrl

\* the response has a first entry carrying a non-empty url
ResultUrlPresent(result) == FirstEntryHasUrl(result) /\ result.data[1].url # ""

\* C6: a processImage run whose upload succeeds and whose AI response holds
\* a result URL goes from Idle to Uploading at its start, from Uploading to
\* Transforming when the upload resolves and from Transforming to Complete
\* when the response arrives; the progress values it wrote are non-decreasing,
\* and it ends with progress 100, a stored result and isProcessing false.
C6_SuccessfulRun ==
    [][\A r \in 1..MaxRuns :
          /\ (runs[r].pc \in {"idle", "done"} /\ runs'[r].pc = "awaitUpload")
                => /\ ProcessingState = "Idle"
                   /\ ProcessingState' = "Uploading"
          /\ (runs[r].pc = "awaitUpload" /\ runs'[r].pc = "awaitModify")
                => /\ ProcessingState = "Uploading"
                   /\ ProcessingState' = "Transforming"
          /\ (\E result \in AiResults :
                 ResultUrlPresent(result) /\ ModifyResolved(r, result))
                => /\ ProcessingState = "Transforming"
                   /\ ProcessingState' = "Complete"
                   /\ progress' = 100
                   /\ processedImage' # Null
                   /\ isProcessing' = FALSE
                   /\ runs'[r].pc = "done"
                   /\ NonDecreasing(ProgressValues(runs'[r].log))
                   /\ ProgressValues(runs'[r].log)
                          [Len(ProgressValues(runs'[r].log))] = 100]_vars

\* a run has just completed successfully
C6_Witness ==
    /\ HasToast(out, "Success!")
    /\ ProcessingState = "Complete"
    /\ progress = 100
    /\ \E r \in 1..MaxRuns :
          /\ runs[r].pc = "done"
          /\ ProgressValues(runs[r].log) = <<0, 20, 40, 60, 90, 100>>

\* C7: when the upload rejects, the AI call rejects or the AI response holds
\* no result URL, the invocation returns (nothing propagates), isProcessing
\* is false, no result is stored, the component is back at its ready panel,
\* and the run has emitted exactly one failure notification.
C7_FailedRun ==
    [][\A r \in 1..MaxRuns :
          (\/ \E error \in Thrown : UploadRejected(r, error)
           \/ \E error \in Thrown : ModifyRejected(r, error)
           \/ \E result \in AiResults :
                 ~ResultUrlPresent(result) /\ ModifyResolved(r, result))
              => /\ runs'[r].pc = "done"
                 /\ isProcessing' = FALSE
                 /\ processedImage' = Null
                 /\ ProcessingState' = "Idle"
                 /\ TitleCount(runs'[r].log, "Processing failed") = 1
                 /\ TitleCount(runs'[r].log, "Success!") = 0
                 /\ ToastCount(out') = 1
                 /\ HasToast(out', "Processing failed")]_vars

\* a run has just failed on an invalid AI response
C7_Witness ==
    /\ HasToast(out, "Processing failed")
    /\ ~isProcessing
    /\ processedImage = Null
    /\ progress = 90
    /\ \E r \in 1..MaxRuns :
          runs[r].pc = "done" /\ TitleCount(runs[r].log, "Processing failed") = 1

\* C8: a result is stored only if the first entry of the AI response has a
\* url; for a null response, one without data, an empty list or a first entry
\* without url the run is an error, no result is stored and progress does not
\* reach 100 in that run.
C8_ResultNeedsUrl ==
    [][\A r \in 1..MaxRuns : \A result \in AiResults :
          ModifyResolved(r, result)
              => /\ processedImage' # Null => FirstEntryHasUrl(result)
                 /\ ~FirstEntryHasUrl(result)
                      => /\ processedImage' = Null
                         /\ HasToast(out', "Processing failed")
                         /\ progress' # 100
                         /\ \A i \in 1..Len(ProgressValues(runs'[r].log)) :
                               ProgressValues(runs'[r].log)[i] # 100]_vars

\* an AI response without a usable first url has just been turned into an error
C8_Witness ==
    /\ \E i \in 1..Len(out) :
          /\ IsToast(out[i])
          /\ out[i].title = "Processing failed"
          /\ out[i].description = <<"Error: ">> \o InvalidResponse.message
                                      \o <<". Please try again.">>
    /\ processedImage = Null
    /\ progress = 90

\* C9: when the fetch or the body read of a download rejects, the result, the
\* selected file, the progress and the stage are what they were, exactly one
\* failure notification is emitted, and the download can be started again:
\* the invocation is over and the button is still rendered if it was.
C9_DownloadFailureKeepsResult ==
    [][\A d \in 1..MaxDownloads : \A error \in Thrown :
          (FetchRejected(d, error) \/ BlobRejected(d, error))
              => /\ UNCHANGED <<processedImage, selectedImage, previewUrl,
                                progress, isProcessing>>
                 /\ ProcessingState' = ProcessingState
                 /\ ToastCount(out') = 1
                 /\ HasToast(out', "Download failed")
                 /\ downloads'[d].pc = "idle"
                 /\ DownloadRendered => DownloadRendered']_vars

\* a download has just failed with the result still shown
C9_Witness ==
    /\ HasToast(out, "Download failed")
    /\ ProcessingState = "Complete"
    /\ DownloadRendered
    /\ FreeDownloads # {}

\* the name without its final extension
WithoutFinalExtension(name) ==
    IF LastDot(name) = 0 THEN name ELSE SubSeq(name, 1, LastDot(name) - 1)

\* C10: the suggested download filename is the original name without its
\* final extension, followed by "_watermark_removed.png", for every name.
C10_SuggestedFilename ==
    (processedImage # Null /\ selectedImage # Null)
        => processedImage.filename =
               WithoutFinalExtension(selectedImage.name)
                   \o <<"_", "w", "a", "t", "e", "r", "m", "a", "r", "k",
                        "_", "r", "e", "m", "o", "v", "e", "d",
                        ".", "p", "n", "g">>

InFlight(r) == runs[r].pc \in {"awaitUpload", "awaitModify"}

C12_ResultOnlyFromCompleteRun ==
    [][/\ (processedImage' # processedImage /\ processedImage' # Null)
             => /\ \E r \in 1..MaxRuns :
                      /\ runs[r].pc = "awaitModify"
                      /\ runs'[r].pc = "done"
                /\ HasToast(out', "Success!")
                /\ ProcessingState' = "Complete"
       /\ (selectedImage' # selectedImage \/ previewUrl' # previewUrl)
             => processedImage' = Null
       /\ (\E r \in 1..MaxRuns :
              /\ InFlight(r)
              /\ runs'[r].pc = "done"
              /\ ~HasToast(out', "Success!"))
             => UNCHANGED processedImage
       /\ HasToast(out', "Authentication required")
             => UNCHANGED processedImage]_vars

\* a new valid selection made after a complete run has cleared the result
C12_Witness ==
    /\ HasEvent(out, "createObjectURL")
    /\ selectedImage # Null
    /\ processedImage = Null
    /\ progress = ProgressSucceeded

EventCount(events, ev) ==
    Cardinality({i \in DOMAIN events : events[i].ev = ev})

\* C13: every processImage invocation issues at most one storage upload and
\* at most one AI request, the AI request only in the step in which its own
\* upload resolved and with the URL that upload returned; a step that ends a
\* run issues no further request; and every run that starts, whatever the
\* earlier runs did, starts with no uploaded URL and with its own upload.
C13_NoRetryNoResumption ==
    /\ [](\A r \in 1..MaxRuns :
            LET log == runs[r].log
            IN  /\ EventCount(log, "upload") <= 1
                /\ EventCount(log, "modifyImage") <= 1
                /\ \A j \in DOMAIN log :
                      log[j].ev = "modifyImage"
                         => \E i \in 1..(j - 1) : log[i].ev = "upload"
                /\ runs[r].pc = "awaitUpload"
                      => /\ EventCount(log, "upload") = 1
                         /\ EventCount(log, "modifyImage") = 0
                         /\ runs[r].publicUrl = ""
                /\ runs[r].pc = "awaitModify"
                      => /\ EventCount(log, "modifyImage") = 1
                         /\ runs[r].publicUrl \in PublicUrls)
    /\ [][/\ HasEvent(out', "modifyImage")
                => \E r \in 1..MaxRuns :
                      /\ runs[r].pc = "awaitUpload"
                      /\ runs'[r].pc = "awaitModify"
                      /\ \A i \in DOMAIN out' :
                            out'[i].ev = "modifyImage"
                               => out'[i].images = <<runs'[r].publicUrl>>
          /\ \A r \in 1..MaxRuns :
                /\ (InFlight(r) /\ runs'[r].pc = "done")
                      => /\ ~HasEvent(out', "upload")
                         /\ ~HasEvent(out', "modifyImage")
                /\ (~InFlight(r) /\ InFlight(r)')
                      => /\ runs'[r].pc = "awaitUpload"
                         /\ runs'[r].publicUrl = ""
                         /\ EventCount(out', "upload") = 1
                         /\ runs'[r].log = Briefs(out')]_vars

\* a run has failed after its one upload and its one AI request
C13_Witness ==
    \E r \in 1..MaxRuns :
       /\ runs[r].pc = "done"
       /\ EventCount(runs[r].log, "upload") = 1
       /\ EventCount(runs[r].log, "modifyImage") = 1
       /\ TitleCount(runs[r].log, "Success!") = 0
       /\ ~isProcessing

\* the validator has acted in the step: it refused the file or staged it
ValidatorReached ==
    \/ HasToast(out', "Invalid file type")
    \/ HasToast(out', "File too large")
    \/ HasEvent(out', "createObjectURL")

\* C14: dragenter and dragover set the drag-active flag, dragleave and drop
\* clear it; dragenter, dragover and dragleave leave the selected file, the
\* preview reference, the result, the progress and the processing flag as
\* they were and do not reach the validator; of the drag-and-drop events only
\* a drop that carries a file reaches the validator, a drop without a file
\* changing nothing but the flag.
C14_DragFlagAndFrame ==
    [][/\ \A type \in DragTypes :
             HandleDrag(type)
                => /\ dragActive' = (type \in {"dragenter", "dragover"})
                   /\ UNCHANGED <<selectedImage, previewUrl, processedImage,
                                  progress, isProcessing, objectUrls>>
                   /\ ~ValidatorReached
       /\ \A files \in FileLists :
             HandleDrop(files)
                => /\ dragActive' = FALSE
                   /\ ValidatorReached <=> files # << >>
                   /\ files = << >>
                         => UNCHANGED <<selectedImage, previewUrl,
                                        processedImage, progress,
                                        isProcessing, objectUrls>>]_vars

\* a drag is over the page while a file and its result are in place
C14_Witness ==
    /\ dragActive
    /\ out = << >>
    /\ selectedImage # Null
    /\ processedImage # Null
    /\ progress = ProgressSucceeded

\* every object URL the events create is then the href of a save and is
\* revoked after it
CreatedSavedRevoked(events) ==
    \A i \in DOMAIN events :
       events[i].ev = "createObjectURL"
          => \E j \in DOMAIN events, k \in DOMAIN events :
                /\ i < j
                /\ j < k
                /\ events[j].ev = "save"
                /\ events[j].href = events[i].url
                /\ events[k].ev = "revokeObjectURL"
                /\ events[k].url = events[i].url

\* C15: the step that completes a downloadProcessedImage invocation leaves
\* the live object URLs as they were: on success the URL it created is saved
\* from and then revoked in that same step, on failure none was created; no
\* URL is created while the fetch or the blob is awaited; a save happens only
\* when the blob has arrived; and an object URL that stays live after any
\* step is the preview URL of a selection, never one of a download.
C15_DownloadUrlReleased ==
    [][/\ \A d \in 1..MaxDownloads :
             /\ (downloads[d].pc # "idle" /\ downloads'[d].pc = "idle")
                   => /\ objectUrls' = objectUrls
                      /\ CreatedSavedRevoked(out')
                      /\ HasToast(out', "Download failed")
                            => ~HasEvent(out', "createObjectURL")
                      /\ HasToast(out', "Downloaded!")
                            => HasEvent(out', "createObjectURL")
             /\ (downloads'[d].pc # "idle" /\ downloads'[d] # downloads[d])
                   => /\ objectUrls' = objectUrls
                      /\ ~HasEvent(out', "createObjectURL")
       /\ HasEvent(out', "save")
             => \E d \in 1..MaxDownloads :
                   downloads[d].pc = "awaitBlob" /\ downloads'[d].pc = "idle"
       /\ objectUrls' # objectUrls
             => objectUrls' \ objectUrls = {previewUrl'}]_vars

\* a download has just succeeded and the one live URL is the preview's
C15_Witness ==
    /\ HasToast(out, "Downloaded!")
    /\ HasEvent(out, "revokeObjectURL")
    /\ objectUrls = {previewUrl}

\* C16: provided every awaited collaborator call settles, every run that
\* is in flight comes to an end with isProcessing false; and whichever way a
\* run ends (success, invalid response, thrown error) the step that ends it
\* leaves isProcessing false.
C16_RunLeavesProcessing ==
    /\ \A r \in 1..MaxRuns : InFlight(r) ~> (~InFlight(r) /\ ~isProcessing)
    /\ isProcessing ~> ~isProcessing
    /\ [][\A r \in 1..MaxRuns :
             (InFlight(r) /\ runs'[r].pc = "done") => ~isProcessing']_vars

\* a run that failed at the upload has left the processing state
C16_Witness ==
    /\ ~isProcessing
    /\ processedImage = Null
    /\ progress = ProgressUploading
    /\ \E r \in 1..MaxRuns :
          runs[r].pc = "done" /\ EventCount(runs[r].log, "modifyImage") = 0

\* the workflow data hold the values they have after construction
WorkflowDataInitial ==
    /\ selectedImage = Null
    /\ previewUrl = EmptyUrl
    /\ processedImage = Null
    /\ progress = 0

\* C17: resetProcess, in whatever state it is called, leaves no selected
\* file, an empty preview, no result, progress 0 and an empty file input, and
\* touches nothing else; called in a state it has produced it changes nothing,
\* so that two resets give the state of one.
C17_ResetToInitial ==
    [][ResetProcess
          => /\ WorkflowDataInitial'
             /\ fileInputValue' = NoValue
             /\ UNCHANGED <<isProcessing, dragActive, user, authLoading, runs>>
             /\ (WorkflowDataInitial /\ fileInputValue = NoValue)
                   => UNCHANGED <<selectedImage, previewUrl, processedImage,
                                  progress, fileInputValue, objectUrls>>]_vars

\* resetProcess has been applied to a complete workflow
C17_Witness ==
    /\ WorkflowDataInitial
    /\ out = << >>
    /\ ~isProcessing
    /\ objectUrls # {}
    /\ \E r \in 1..MaxRuns :
          runs[r].pc = "done" /\ TitleCount(runs[r].log, "Success!") = 1

====
